---- MODULE Spec2Model ----
(***************************************************************************)
(* A model of evasion.messenger.endpoint: the Transceiver (background      *)
(* receive loop, stop flag, per-call outbound connection) and the Register *)
(* (subscription table, inbound frame interpreter, publish).               *)
(*                                                                         *)
(* Python byte strings are modelled as sequences of one-character strings, *)
(* so that strip(), upper() and lower() are computed and not assumed.      *)
(***************************************************************************)
EXTENDS Naturals, Integers, Sequences, FiniteSets, TLC

\* ------------------------------------------------------------------ bounds

\* Longest raw signal string drawn as an input of the normalisation specification.
MaxSigLen == 2
\* Number of subscribe() calls the caller makes.
MaxSubs == 2
\* Number of frames the hub delivers to the inbound socket.
MaxFrames == 2
\* Number of message_out() calls made over all sender threads.
MaxSends == 2
\* Number of unsubscribe() calls the caller makes.
MaxUnsubs == 2

\* ------------------------------------------------------- python strings

Lowers == <<"a","b","c","d","e","f","g","h","i","j","k","l","m",
            "n","o","p","q","r","s","t","u","v","w","x","y","z">>

Uppers == <<"A","B","C","D","E","F","G","H","I","J","K","L","M",
            "N","O","P","Q","R","S","T","U","V","W","X","Y","Z">>

IsSpace(c) == c \in {" ", "\t", "\n"}

UpperChar(c) ==
  IF \E i \in 1..26 : Lowers[i] = c
  THEN Uppers[CHOOSE i \in 1..26 : Lowers[i] = c]
  ELSE c

LowerChar(c) ==
  IF \E i \in 1..26 : Uppers[i] = c
  THEN Lowers[CHOOSE i \in 1..26 : Uppers[i] = c]
  ELSE c

\* str.upper() / str.lower()
upper(s) == [i \in 1..Len(s) |-> UpperChar(s[i])]

lower(s) == [i \in 1..Len(s) |-> LowerChar(s[i])]

RECURSIVE lstrip(_)
lstrip(s) == IF s # <<>> /\ IsSpace(Head(s)) THEN lstrip(Tail(s)) ELSE s

RECURSIVE rstrip(_)
rstrip(s) ==
  IF s # <<>> /\ IsSpace(s[Len(s)]) THEN rstrip(SubSeq(s, 1, Len(s) - 1)) ELSE s

\* str.strip(): leading and trailing whitespace removed, inner kept.
strip(s) == rstrip(lstrip(s))

\* A Python value handed to an API call: a string carries its characters,
\* any other type carries none.
PyStr(s) == [type |-> "str", chars |-> s]

PyOther(t) == [type |-> t, chars |-> <<>>]

\* isinstance(v, basestring)
IsBasestring(v) == v.type \in {"str", "unicode"}

\* ------------------------------------------------------ validate_signal

\* Variant of validate_signal that upper-cases without strip().
validate_signal_nostrip(signal) ==
  IF ~IsBasestring(signal)
  THEN [ok |-> FALSE, val |-> <<>>, exc |-> "ValueError"]
  ELSE LET s == upper(signal.chars)
       IN  IF s = <<>>
           THEN [ok |-> FALSE, val |-> <<>>, exc |-> "ValueError"]
           ELSE [ok |-> TRUE, val |-> s, exc |-> "none"]

\* Register.validate_signal: ValueError unless a string that is non-empty
\* after strip(); returns the stripped, upper-cased string.
validate_signal(signal) ==
  IF ~IsBasestring(signal)
  THEN [ok |-> FALSE, val |-> <<>>, exc |-> "ValueError"]
  ELSE LET s == upper(strip(signal.chars))
       IN  IF s = <<>>
           THEN [ok |-> FALSE, val |-> <<>>, exc |-> "ValueError"]
           ELSE [ok |-> TRUE, val |-> s, exc |-> "none"]

\* ------------------------------------------------------------ json.loads

Digits == <<"0","1","2","3","4","5","6","7","8","9">>

IsDigit(c) == \E i \in 1..10 : Digits[i] = c

DigitValue(c) == (CHOOSE i \in 1..10 : Digits[i] = c) - 1

\* The decoded values: a flat JSON object (a dict, as its set of
\* <<key, number>> items) or a bare one-digit number.
JsonDict(items) == [type |-> "dict", items |-> items, n |-> 0]

JsonInt(n) == [type |-> "int", items |-> {}, n |-> n]

JsonFail == [ok |-> FALSE, val |-> JsonInt(0)]

\* Position of the first double quote of t at or after position i, 0 if none.
RECURSIVE FindQuote(_, _)
FindQuote(t, i) ==
  IF i > Len(t) THEN 0
  ELSE IF t[i] = "\"" THEN i
  ELSE FindQuote(t, i + 1)

\* The members  "key":digit[,"key":digit]*  of an object, whitespace
\* allowed around each token; a later member replaces an earlier one of
\* the same key, as in a Python dict.
RECURSIVE ParseMembers(_, _)
ParseMembers(text, items) ==
  LET t == lstrip(text)
  IN  IF Len(t) < 4 \/ t[1] # "\"" THEN [ok |-> FALSE, items |-> {}]
      ELSE LET j     == FindQuote(t, 2)
               colon == IF j = 0 THEN <<>> ELSE lstrip(SubSeq(t, j + 1, Len(t)))
               value == IF colon = <<>> THEN <<>> ELSE lstrip(Tail(colon))
           IN  IF colon = <<>> \/ Head(colon) # ":" \/ value = <<>> \/ ~IsDigit(Head(value))
               THEN [ok |-> FALSE, items |-> {}]
               ELSE LET key  == SubSeq(t, 2, j - 1)
                        kept == {it \in items : it[1] # key}
                        now  == kept \cup {<<key, DigitValue(Head(value))>>}
                        rest == lstrip(Tail(value))
                    IN  IF rest = <<>> THEN [ok |-> TRUE, items |-> now]
                        ELSE IF Head(rest) # "," THEN [ok |-> FALSE, items |-> {}]
                        ELSE ParseMembers(Tail(rest), now)

\* json.loads on the text of a frame's data field: ValueError (ok = FALSE)
\* when the text is not JSON.
json_loads(text) ==
  LET t == strip(text)
  IN  IF Len(t) = 1 /\ IsDigit(t[1]) THEN [ok |-> TRUE, val |-> JsonInt(DigitValue(t[1]))]
      ELSE IF Len(t) >= 2 /\ t[1] = "{" /\ t[Len(t)] = "}"
      THEN LET inner == strip(SubSeq(t, 2, Len(t) - 1))
           IN  IF inner = <<>> THEN [ok |-> TRUE, val |-> JsonDict({})]
               ELSE LET m == ParseMembers(inner, {})
                    IN  IF m.ok THEN [ok |-> TRUE, val |-> JsonDict(m.items)]
                        ELSE JsonFail
      ELSE JsonFail

\* ------------------------------------------------------------ json.dumps

\* The members of a dict as json.dumps writes them: "key": digit, joined
\* by a comma and a blank, in the dict's own key order.
RECURSIVE DumpMembers(_)
DumpMembers(items) ==
  IF items = {} THEN <<>>
  ELSE LET it   == CHOOSE x \in items : TRUE
           rest == items \ {it}
           one  == <<"\"">> \o it[1] \o <<"\"", ":", " ", Digits[it[2] + 1]>>
       IN  IF rest = {} THEN one ELSE one \o <<",", " ">> \o DumpMembers(rest)

\* json.dumps(data) of a decoded value.
json_dumps(data) ==
  IF data.type = "int" THEN <<Digits[data.n + 1]>>
  ELSE <<"{">> \o DumpMembers(data.items) \o <<"}">>

\* ---------------------------------------------------------------- frames

\* A frame is a sequence of fields, each a string (recv_multipart yields
\* byte strings only).
DISPATCH == <<"D","I","S","P","A","T","C","H">>

HUB_PRESENT == <<"H","U","B","_","P","R","E","S","E","N","T">>

SYNC == <<"S","Y","N","C">>

\* frames.sync_message(): the one-field frame ["SYNC"].
sync_message == <<SYNC>>

\* The reply_to wire sentinel "0".
NoReply == <<"0">>

\* The Python value None.
None == PyOther("NoneType")

\* frames.dispatch_message(endpoint_id, signal, data, reply_to): the frame
\* ["DISPATCH", endpoint_id, signal, json of data, reply_to or "0"].
dispatch_message(endpoint_id, signal, data, reply_to) ==
  [type  |-> "list",
   chars |-> <<DISPATCH, endpoint_id, signal.chars, json_dumps(data),
               IF reply_to = None THEN NoReply ELSE reply_to.chars>>]

\* The command literals message_handler compares with.
cmd_dispatch == <<"d","i","s","p","a","t","c","h">>

cmd_hub_present == <<"h","u","b","_","p","r","e","s","e","n","t">>

cmd_sync == <<"s","y","n","c">>

\* ------------------------------------------------------- message_handler

\* What one run of message_handler comes to before any callback runs:
\*   "invoke": a DISPATCH frame was decoded, its subscribers are to be called;
\*   "done":   the frame was handled or dropped (log says which);
\*   "raise":  exception exc leaves message_handler.
Outcome(kind, exc, log, endpoint_uuid, signal, data, reply_to) ==
  [kind |-> kind, exc |-> exc, log |-> log, endpoint_uuid |-> endpoint_uuid,
   signal |-> signal, data |-> data, reply_to |-> reply_to]

Done(log) == Outcome("done", "none", log, <<>>, <<>>, JsonInt(0), <<>>)

Raise(exc) == Outcome("raise", exc, "none", <<>>, <<>>, JsonInt(0), <<>>)

\* command = message[0]; stripped and lower-cased when it is a non-empty string.
CommandOf(message) ==
  LET command == message[1]
  IN  IF command # <<>> /\ IsBasestring(PyStr(command))
      THEN lower(strip(command))
      ELSE command

\* command_args = message[1:] when more than one field is present.
CommandArgs(message) == IF Len(message) > 1 THEN Tail(message) ELSE <<>>

\* Variant of handle_dispath_message that validates the signal and then
\* looks the subscribers up under the signal as received.
handle_dispath_message_raw(endpoint_uuid, signal, data, reply_to) ==
  LET v == validate_signal(PyStr(signal))
  IN  IF ~v.ok THEN Raise(v.exc)
      ELSE Outcome("invoke", "none", "none", endpoint_uuid, signal, data, reply_to)

\* Register.handle_dispath_message up to its loop over the subscribers: the
\* signal is validated (ValueError when empty after strip) and normalised.
handle_dispath_message(endpoint_uuid, signal, data, reply_to) ==
  LET v == validate_signal(PyStr(signal))
  IN  IF ~v.ok THEN Raise(v.exc)
      ELSE Outcome("invoke", "none", "none", endpoint_uuid, v.val, data, reply_to)

\* Variant of message_handler that takes the first four of more than four
\* argument fields.
message_handler_extra_args(message) ==
  IF Len(message) = 0 THEN Done("invalid message")
  ELSE LET command      == CommandOf(message)
           command_args == CommandArgs(message)
       IN  IF command = cmd_dispatch
           THEN IF Len(command_args) < 4 THEN Raise("ValueError")
                ELSE LET data == json_loads(command_args[3])
                     IN  IF ~data.ok THEN Raise("ValueError")
                         ELSE handle_dispath_message(command_args[1], command_args[2],
                                                     data.val, command_args[4])
           ELSE IF command = cmd_hub_present
           THEN IF Len(command_args) = 0 THEN Done("no version data")
                ELSE IF ~json_loads(command_args[1]).ok THEN Raise("ValueError")
                ELSE Done("none")
           ELSE IF command = cmd_sync THEN Done("none")
           ELSE Done("unknown command")

\* Variant of message_handler that handles every command other than
\* hub_present and sync as a dispatch.
message_handler_else_dispatch(message) ==
  IF Len(message) = 0 THEN Done("invalid message")
  ELSE LET command      == CommandOf(message)
           command_args == CommandArgs(message)
       IN  IF command = cmd_hub_present
           THEN IF Len(command_args) = 0 THEN Done("no version data")
                ELSE IF ~json_loads(command_args[1]).ok THEN Raise("ValueError")
                ELSE Done("none")
           ELSE IF command = cmd_sync THEN Done("none")
           ELSE IF Len(command_args) # 4 THEN Raise("ValueError")
                ELSE LET data == json_loads(command_args[3])
                     IN  IF ~data.ok THEN Raise("ValueError")
                         ELSE handle_dispath_message(command_args[1], command_args[2],
                                                     data.val, command_args[4])

\* Variant of message_handler that handles a sync command with argument
\* fields as a dispatch.
message_handler_sync_dispatch(message) ==
  IF Len(message) = 0 THEN Done("invalid message")
  ELSE LET command      == CommandOf(message)
           command_args == CommandArgs(message)
       IN  IF command = cmd_dispatch \/ (command = cmd_sync /\ command_args # <<>>)
           THEN IF Len(command_args) # 4 THEN Raise("ValueError")
                ELSE LET data == json_loads(command_args[3])
                     IN  IF ~data.ok THEN Raise("ValueError")
                         ELSE handle_dispath_message(command_args[1], command_args[2],
                                                     data.val, command_args[4])
           ELSE IF command = cmd_hub_present
           THEN IF Len(command_args) = 0 THEN Done("no version data")
                ELSE IF ~json_loads(command_args[1]).ok THEN Raise("ValueError")
                ELSE Done("none")
           ELSE IF command = cmd_sync THEN Done("none")
           ELSE Done("unknown command")

\* Register.message_handler. "except IndexError" catches neither the
\* ValueError of unpacking command_args into four names nor that of
\* json.loads or validate_signal: those leave message_handler.
message_handler(message) ==
  IF Len(message) = 0 THEN Done("invalid message")
  ELSE LET command      == CommandOf(message)
           command_args == CommandArgs(message)
       IN  IF command = cmd_dispatch
           THEN IF Len(command_args) # 4 THEN Raise("ValueError")
                ELSE LET data == json_loads(command_args[3])
                     IN  IF ~data.ok THEN Raise("ValueError")
                         ELSE handle_dispath_message(command_args[1], command_args[2],
                                                     data.val, command_args[4])
           ELSE IF command = cmd_hub_present
           THEN IF Len(command_args) = 0 THEN Done("no version data")
                ELSE IF ~json_loads(command_args[1]).ok THEN Raise("ValueError")
                ELSE Done("none")
           ELSE IF command = cmd_sync THEN Done("none")
           ELSE Done("unknown command")

\* Variant of ReplyArg that tests the field for truth, not against '0'.
ReplyArg_truthy(reply_to) == IF reply_to # <<>> THEN PyStr(reply_to) ELSE None

\* The third argument a subscriber is called with.
ReplyArg(reply_to) == IF reply_to # NoReply THEN PyStr(reply_to) ELSE None

\* Variant without the try/except around the subscriber call.
CallbackErrorPropagates_unguarded(raised) == raised

\* The try/except around one subscriber call in handle_dispath_message:
\* TRUE when the subscriber's exception leaves the loop over the subscribers.
CallbackErrorPropagates(raised) == FALSE

\* Variant without the try/except around the handler.
HandlerErrorEscapes_unguarded(exc) == exc # "none"

\* The try/except of Transceiver.message_in around the handler: TRUE when
\* an exception of the handler leaves message_in, and so main().
HandlerErrorEscapes(exc) == FALSE

\* Python 2 evaluates "events > 0" for the list poll() returns: a list and
\* an int are ordered by type, every list above every number, whatever the
\* list holds.
EventsGreaterThanZero(events) == TRUE

\* ------------------------------------------------------------- subscribe

\* A callback: a Python function object, named by its characters.
PyFn(name) == [type |-> "function", chars |-> name]

\* "callback not in self._subscriptions": membership in a dict tests the
\* dict's keys, the signals, and not the subscriber lists.
CallbackNotInSubscriptions(subs, callback) ==
  ~(\E k \in DOMAIN subs : PyStr(k) = callback)

\* Variant of subscribe that puts the callback at the head of the list.
subscribe_prepend(subs, signal, callback) ==
  LET v == validate_signal(signal)
  IN  IF ~v.ok THEN [subs |-> subs, exc |-> v.exc]
      ELSE LET withKey == [k \in DOMAIN subs \cup {v.val} |->
                             IF k \in DOMAIN subs THEN subs[k] ELSE <<>>]
           IN  IF CallbackNotInSubscriptions(withKey, callback)
               THEN [subs |-> [withKey EXCEPT ![v.val] = <<callback>> \o @],
                     exc  |-> "none"]
               ELSE [subs |-> withKey, exc |-> "none"]

\* Register.subscribe on the table subs: the table afterwards and the
\* exception raised ("none" when the call returns).
subscribe(subs, signal, callback) ==
  LET v == validate_signal(signal)
  IN  IF ~v.ok THEN [subs |-> subs, exc |-> v.exc]
      ELSE LET withKey == [k \in DOMAIN subs \cup {v.val} |->
                             IF k \in DOMAIN subs THEN subs[k] ELSE <<>>]
           IN  IF CallbackNotInSubscriptions(withKey, callback)
               THEN [subs |-> [withKey EXCEPT ![v.val] = Append(@, callback)],
                     exc  |-> "none"]
               ELSE [subs |-> withKey, exc |-> "none"]

\* Variant of unsubscribe that removes the callback from the signal's list.
unsubscribe_removing(subs, signal, callback) ==
  LET v == validate_signal(signal)
  IN  IF v.ok /\ v.val \in DOMAIN subs
      THEN [subs EXCEPT ![v.val] = SelectSeq(@, LAMBDA c : c # callback)]
      ELSE subs

\* Register.unsubscribe on the table subs: the method has a docstring and
\* no statement, the table afterwards is the table before.
unsubscribe(subs, signal, callback) == subs

\* ---------------------------------------------------------------- inputs

Callbacks == {PyFn(<<"c","b","1">>), PyFn(<<"c","b","2">>)}

SignalAlphabet == {"a", "A", " "}

\* Every string over SignalAlphabet of at most MaxSigLen characters.
SignalInputs == UNION {[1..n -> SignalAlphabet] : n \in 0..MaxSigLen}

\* The raw signals of the life-cycle specification: two spellings of one
\* signal. Those of the frame specification: two signals.
CoreSignals == {<<"a">>, <<" ","A">>}

FrameSignals == {<<"a">>, <<"b">>}

\* A signal that is empty after strip().
BlankSignal == <<" ">>

SignalArgs(S) == {PyStr(s) : s \in S}

\* The signal arguments of unsubscribe: another spelling of the signal
\* subscribed to, and a value that is not a string.
UnsubscribeArgs == {PyStr(<<" ","a"," ">>), PyOther("int")}

Origin == <<"e","1">>

GoodData == <<"{","\"","x","\"",":","1","}">>

BadData == <<"{","x">>

\* The dict {"x": 1}: the value json.loads makes of GoodData.
GoodDict == JsonDict({<<<<"x">>, 1>>})

\* The signals and the data of the publish specification.
TeaTime == <<"t","e","a","_","t","i","m","e">>

TEA_TIME == <<"T","E","A","_","T","I","M","E">>

PubSubscribeArgs == {PyStr(TEA_TIME), PyStr(BlankSignal), PyOther("int")}

PubSignalArgs == {PyStr(TeaTime), PyStr(BlankSignal)}

PubData == {GoodDict}

ReplyId == <<"r","7">>

MixedDispatch == <<" ","D","i","s","p","a","t","c","h"," ">>

Bogus == <<"b","o","g","u","s">>

\* Well-formed DISPATCH frames: commands C, signals S, reply_to fields R.
DispatchFrames(C, S, R) == {<<c, Origin, s, GoodData, r>> : c \in C, s \in S, r \in R}

\* DISPATCH frames whose data is not JSON.
BadJsonFrames == {<<DISPATCH, Origin, <<"a">>, BadData, NoReply>>}

\* DISPATCH frames of 0, 1, 3 and 5 argument fields.
ArityFrames ==
  LET full == <<DISPATCH, Origin, <<"a">>, GoodData, NoReply, ReplyId>>
  IN  {SubSeq(full, 1, n) : n \in {1, 2, 4, 6}}

\* Frames of the other commands.
OtherFrames ==
  {<<SYNC>>, <<<<" ","s","y","n","c">>, Origin, SYNC, GoodData, NoReply>>,
   <<HUB_PRESENT>>, <<HUB_PRESENT, GoodData>>, <<HUB_PRESENT, BadData>>,
   <<Bogus>>, <<Bogus, Origin, <<"a">>, GoodData, NoReply>>, <<<<>>>>}

\* The frames of the life-cycle specification: a signal with subscribers,
\* one without, and a SYNC.
CoreFrames == DispatchFrames({DISPATCH}, {<<"a">>, <<"b">>}, {NoReply}) \cup {<<SYNC>>}

\* The frames of the frame specification: every kind of frame.
AllFrames ==
  DispatchFrames({DISPATCH}, FrameSignals, {NoReply, ReplyId})
    \cup DispatchFrames({MixedDispatch}, {<<"a">>}, {NoReply})
    \cup DispatchFrames({DISPATCH}, {BlankSignal}, {NoReply})
    \cup BadJsonFrames \cup ArityFrames \cup OtherFrames

\* A sync and a hub_present command, in mixed case and padded, each with
\* the argument fields of a DISPATCH of the signal of its own name.
SyncWithArgs == <<<<" ","S","y","n","c"," ">>, Origin, SYNC, GoodData, NoReply>>

HubPresentWithArgs ==
  <<<<"H","u","b","_","P","r","e","s","e","n","t"," ">>, GoodData, HUB_PRESENT, GoodData, NoReply>>

\* The signals subscribed to in the keepalive specification: those named
\* like the commands.
KeepaliveSignals == {cmd_sync, HUB_PRESENT}

\* The frames of the keepalive specification: sync and hub_present frames,
\* and a DISPATCH of each of the signals subscribed to.
KeepaliveFrames ==
  {<<SYNC>>, <<cmd_sync>>, SyncWithArgs, <<HUB_PRESENT>>, <<HUB_PRESENT, GoodData>>,
   HubPresentWithArgs}
    \cup DispatchFrames({DISPATCH}, {SYNC, cmd_hub_present}, {NoReply})

\* The frames of the normalisation specification: a DISPATCH of every signal.
SignalFrames == DispatchFrames({DISPATCH}, SignalInputs, {NoReply})

\* ----------------------------------------------------------------- state

VARIABLES
  subscriptions,  \* Register._subscriptions: signal -> sequence of callbacks
  exitTime,       \* Transceiver.exitTime, the stop flag
  selfIncoming,   \* Transceiver.incoming: None, or a socket
  sock,           \* main()'s local socket "incoming": "none", "open", "closed"
  ctx,            \* main()'s local zmq context: "none", "open", "terminated"
  pc,             \* where the receive-loop thread is
  idx,            \* position of the loop over the subscribers of a frame
  pending,        \* frames the hub has sent that recv_multipart() has not returned
  sent,           \* frames the hub has sent so far
  nRecv,          \* frames recv_multipart() has returned so far
  lastFrame,      \* the frame last returned by recv_multipart()
  prevHead,       \* the frame before it: command field, argument count,
                  \* whether a subscriber raised, the handler's exception
  cur,            \* what message_handler made of lastFrame: the handler's locals
  calls,          \* the subscriber calls made for lastFrame, in order
  lastExc,        \* the exception that left message_handler for lastFrame
  lastSub,        \* the last subscribe() call: its arguments and exception
  nSubs,          \* subscribe() calls made so far
  stopPc,         \* where the loop was when stop() was called; "none" before
  spc,            \* where each sender thread is in message_out
  smsg,           \* the argument of each sender's latest message_out call
  sconn,          \* the connection that call opened, 0 when none
  sres,           \* how each sender's latest finished call ended
  conns,          \* every outbound connection opened so far
  nSends,         \* message_out calls made so far
  spub,           \* the publish() call each sender's message_out call comes from
  selfEndpointUuid, \* Register.endpoint_uuid
  lastUnsub,      \* the last unsubscribe() call: its arguments
  nUnsubs         \* unsubscribe() calls made so far

receiverVars == <<subscriptions, exitTime, selfIncoming, sock, ctx, ctx, pc, idx,
                  pending, sent, nRecv, lastFrame, prevHead, cur, calls,
                  lastExc, lastSub, nSubs, stopPc>>

senderVars == <<spc, smsg, sconn, sres, conns, nSends, spub>>

registerVars == <<selfEndpointUuid, lastUnsub, nUnsubs>>

vars == <<receiverVars, senderVars, registerVars>>

Senders == {"t1", "t2"}

NoHead == [cmd |-> <<>>, nargs |-> 0 - 1, raised |-> FALSE, exc |-> "none"]

\* No publish() call: the message_out call was made directly.
NoPub == [signal |-> PyOther("uncalled"), data |-> PyOther("uncalled")]

\* The values str(uuid.uuid4()) may give this Register.
Uuids == {<<"u","1">>, <<"u","2">>}

NoUnsub == [signal |-> PyOther("NoneType"), callback |-> PyOther("NoneType"),
            subscribed |-> FALSE, nRecv |-> 0]

NoSub == [signal |-> PyOther("NoneType"), callback |-> PyOther("NoneType"),
          exc |-> "none"]

\* Transceiver.__init__ and Register.__init__: nothing subscribed, the stop
\* flag down, self.incoming None, no thread started, the endpoint id one of
\* uuids.
Construct(uuids) ==
  /\ subscriptions = <<>>
  /\ exitTime = FALSE
  /\ selfIncoming = None
  /\ sock = "none"
  /\ ctx = "none"
  /\ pc = "Idle"
  /\ idx = 0
  /\ pending = 0
  /\ sent = 0
  /\ nRecv = 0
  /\ lastFrame = <<>>
  /\ prevHead = NoHead
  /\ cur = Done("none")
  /\ calls = <<>>
  /\ lastExc = "none"
  /\ lastSub = NoSub
  /\ nSubs = 0
  /\ stopPc = "none"
  /\ spc = [t \in Senders |-> "idle"]
  /\ smsg = [t \in Senders |-> PyOther("uncalled")]
  /\ sconn = [t \in Senders |-> 0]
  /\ sres = [t \in Senders |-> "none"]
  /\ conns = <<>>
  /\ nSends = 0
  /\ spub = [t \in Senders |-> NoPub]
  /\ selfEndpointUuid \in uuids
  /\ lastUnsub = NoUnsub
  /\ nUnsubs = 0

\* The specifications in which nothing is published never read the
\* endpoint id: one value stands for all.
Init == Construct({<<"u","1">>})

\* The specification of publish draws the endpoint id from Uuids.
PubInit == Construct(Uuids)

\* ----------------------------------------------------------- the caller

\* Register.subscribe(signal, callback), signal drawn from the values A.
SubscribeWith(A) ==
  /\ nSubs < MaxSubs
  /\ \E signal \in A, callback \in Callbacks :
       LET r == subscribe(subscriptions, signal, callback)
       IN  /\ subscriptions' = r.subs
           /\ lastSub' = [signal |-> signal, callback |-> callback, exc |-> r.exc]
  /\ nSubs' = nSubs + 1
  /\ UNCHANGED <<senderVars, registerVars>>
  /\ UNCHANGED <<exitTime, selfIncoming, sock, ctx, pc, idx, pending, sent,
                 nRecv, lastFrame, prevHead, cur, calls, lastExc, stopPc>>

\* Register.subscribe(signal, callback), signal a string drawn from S.
SubscribeFrom(S) == SubscribeWith(SignalArgs(S))

\* Callback is in the list of the signal that the value signal names.
IsSubscribed(subs, signal, callback) ==
  /\ signal.type = "str"
  /\ \E k \in DOMAIN subs :
       /\ k = upper(strip(signal.chars))
       /\ \E i \in 1..Len(subs[k]) : subs[k][i] = callback

\* Register.unsubscribe(signal, callback). lastUnsub keeps the arguments,
\* whether the callback was subscribed and how many frames had been
\* received at the call.
Unsubscribe ==
  /\ nUnsubs < MaxUnsubs
  /\ \E signal \in UnsubscribeArgs, callback \in Callbacks :
       /\ subscriptions' = unsubscribe(subscriptions, signal, callback)
       /\ lastUnsub' = [signal     |-> signal,
                        callback   |-> callback,
                        subscribed |-> IsSubscribed(subscriptions, signal, callback),
                        nRecv      |-> nRecv]
  /\ nUnsubs' = nUnsubs + 1
  /\ UNCHANGED <<senderVars, selfEndpointUuid>>
  /\ UNCHANGED <<exitTime, selfIncoming, sock, ctx, pc, idx, pending, sent,
                 nRecv, lastFrame, prevHead, cur, calls, lastExc, lastSub,
                 nSubs, stopPc>>

\* Transceiver.start(): the thread is created and start() returns; main()
\* has not run yet.
Start ==
  /\ pc = "Idle"
  /\ pc' = "Spawned"
  /\ UNCHANGED <<senderVars, registerVars>>
  /\ UNCHANGED <<subscriptions, exitTime, selfIncoming, sock, ctx, idx, pending,
                 sent, nRecv, lastFrame, prevHead, cur, calls, lastExc,
                 lastSub, nSubs, stopPc>>

\* Transceiver.stop(): the flag is raised; self.incoming is closed only when
\* it is set, and nothing ever sets it.
Stop ==
  /\ stopPc = "none"
  /\ exitTime' = TRUE
  /\ sock' = IF selfIncoming # None THEN "closed" ELSE sock
  /\ ctx' = ctx
  /\ stopPc' = pc
  /\ UNCHANGED <<senderVars, registerVars>>
  /\ UNCHANGED <<subscriptions, selfIncoming, pc, idx, pending, sent, nRecv,
                 lastFrame, prevHead, cur, calls, lastExc, lastSub, nSubs>>

\* ------------------------------------------------------ the hub (a peer)

HubSend ==
  /\ sent < MaxFrames
  /\ sent' = sent + 1
  /\ pending' = pending + 1
  /\ UNCHANGED <<senderVars, registerVars>>
  /\ UNCHANGED <<subscriptions, exitTime, selfIncoming, sock, ctx, pc, idx, nRecv,
                 lastFrame, prevHead, cur, calls, lastExc, lastSub, nSubs,
                 stopPc>>

\* ------------------------------------------------- Transceiver.main()

\* main() begins on the new thread: the flag is reset, the socket opened.
MainEnter ==
  /\ pc = "Spawned"
  /\ exitTime' = FALSE
  /\ sock' = "open"
  /\ ctx' = "open"
  /\ pc' = "Check"
  /\ UNCHANGED <<senderVars, registerVars>>
  /\ UNCHANGED <<subscriptions, selfIncoming, idx, pending, sent, nRecv,
                 lastFrame, prevHead, cur, calls, lastExc, lastSub, nSubs,
                 stopPc>>

\* "while not self.exitTime": into poll(), or out through the finally block.
LoopCheck ==
  /\ pc = "Check"
  /\ IF ~exitTime
     THEN pc' = "Poll" /\ sock' = sock /\ ctx' = ctx
     ELSE pc' = "Terminated" /\ sock' = "closed" /\ ctx' = "terminated"
  /\ UNCHANGED <<senderVars, registerVars>>
  /\ UNCHANGED <<subscriptions, exitTime, selfIncoming, idx, pending, sent,
                 nRecv, lastFrame, prevHead, cur, calls, lastExc, lastSub,
                 nSubs, stopPc>>

\* poll(idle_timeout) returns: the ready none after a timeout; then
\* "if (events > 0)" chooses between recv_multipart() and the loop test.
PollReturn ==
  /\ pc = "Poll"
  /\ LET events == IF pending > 0 THEN <<"POLLIN">> ELSE <<>>
     IN  pc' = IF EventsGreaterThanZero(events) THEN "Recv" ELSE "Check"
  /\ UNCHANGED <<senderVars, registerVars>>
  /\ UNCHANGED <<subscriptions, exitTime, selfIncoming, sock, ctx, idx, pending, sent,
                 nRecv, lastFrame, prevHead, cur, calls, lastExc, lastSub,
                 nSubs, stopPc>>

\* Variant of PollInterrupt without the "except ZMQError" clause: the
\* exception runs the finally block and ends the thread with a traceback.
PollInterrupt_uncaught ==
  /\ pc = "Poll"
  /\ pc' = "Crashed"
  /\ sock' = "closed"
  /\ ctx' = "terminated"
  /\ lastExc' = "ZMQError"
  /\ UNCHANGED <<senderVars, registerVars>>
  /\ UNCHANGED <<subscriptions, exitTime, selfIncoming, idx, pending, sent,
                 nRecv, lastFrame, prevHead, cur, calls, lastSub,
                 nSubs, stopPc>>

\* poll() raises ZMQError (an interrupted system call): break, then finally.
PollInterrupt ==
  /\ pc = "Poll"
  /\ pc' = "Terminated"
  /\ sock' = "closed"
  /\ ctx' = "terminated"
  /\ UNCHANGED <<senderVars, registerVars>>
  /\ UNCHANGED <<subscriptions, exitTime, selfIncoming, idx, pending, sent,
                 nRecv, lastFrame, prevHead, cur, calls, lastExc, lastSub,
                 nSubs, stopPc>>

\* Variant of RecvFrom in which a thread that has left main() still receives.
RecvFrom_after_exit(F) ==
  /\ pc \in {"Recv", "Terminated"}
  /\ pending > 0
  /\ \E f \in F :
       \E o \in {message_handler(f)} :
           /\ lastFrame' = f
           /\ lastExc' = o.exc
           /\ cur' = o
           /\ IF o.kind = "invoke" /\ o.signal \in DOMAIN subscriptions
              THEN pc' = "Dispatch" /\ idx' = 1 /\ sock' = sock /\ ctx' = ctx
              ELSE IF o.kind = "raise" /\ HandlerErrorEscapes(o.exc)
              THEN pc' = "Crashed" /\ idx' = 0 /\ sock' = "closed" /\ ctx' = "terminated"
              ELSE pc' = "Check" /\ idx' = 0 /\ sock' = sock /\ ctx' = ctx
  /\ prevHead' = IF nRecv = 0 THEN NoHead
                 ELSE [cmd    |-> lastFrame[1],
                       nargs  |-> Len(lastFrame) - 1,
                       raised |-> \E i \in 1..Len(calls) : calls[i].raised,
                       exc    |-> lastExc]
  /\ pending' = pending - 1
  /\ nRecv' = nRecv + 1
  /\ calls' = <<>>
  /\ UNCHANGED <<senderVars, registerVars>>
  /\ UNCHANGED <<subscriptions, exitTime, selfIncoming, sent, lastSub, nSubs,
                 stopPc>>

\* recv_multipart() returns a frame f of F and message_in(f) runs the
\* handler up to the first subscriber call. recv_multipart() blocks while
\* no frame waits.
RecvFrom(F) ==
  /\ pc = "Recv"
  /\ pending > 0
  /\ \E f \in F :
       \E o \in {message_handler(f)} :
           /\ lastFrame' = f
           /\ lastExc' = o.exc
           /\ cur' = o
           /\ IF o.kind = "invoke" /\ o.signal \in DOMAIN subscriptions
              THEN pc' = "Dispatch" /\ idx' = 1 /\ sock' = sock /\ ctx' = ctx
              ELSE IF o.kind = "raise" /\ HandlerErrorEscapes(o.exc)
              THEN pc' = "Crashed" /\ idx' = 0 /\ sock' = "closed" /\ ctx' = "terminated"
              ELSE pc' = "Check" /\ idx' = 0 /\ sock' = sock /\ ctx' = ctx
  /\ prevHead' = IF nRecv = 0 THEN NoHead
                 ELSE [cmd    |-> lastFrame[1],
                       nargs  |-> Len(lastFrame) - 1,
                       raised |-> \E i \in 1..Len(calls) : calls[i].raised,
                       exc    |-> lastExc]
  /\ pending' = pending - 1
  /\ nRecv' = nRecv + 1
  /\ calls' = <<>>
  /\ UNCHANGED <<senderVars, registerVars>>
  /\ UNCHANGED <<subscriptions, exitTime, selfIncoming, sent, lastSub, nSubs,
                 stopPc>>

\* One turn of "for signal_subscriber in self._subscriptions[signal]": the
\* next subscriber is called and returns or raises.
Invoke ==
  /\ pc = "Dispatch"
  /\ idx <= Len(subscriptions[cur.signal])
  /\ \E raised \in BOOLEAN :
       /\ calls' = Append(calls, [callback      |-> subscriptions[cur.signal][idx],
                                  endpoint_uuid |-> cur.endpoint_uuid,
                                  data          |-> cur.data,
                                  reply_to      |-> ReplyArg(cur.reply_to),
                                  raised        |-> raised])
       /\ IF raised /\ CallbackErrorPropagates(raised)
          THEN /\ lastExc' = "Exception"
               /\ idx' = 0
               /\ IF HandlerErrorEscapes("Exception")
                  THEN pc' = "Crashed" /\ sock' = "closed" /\ ctx' = "terminated"
                  ELSE pc' = "Check" /\ sock' = sock /\ ctx' = ctx
          ELSE /\ idx' = idx + 1
               /\ UNCHANGED <<pc, sock, ctx, lastExc>>
  /\ UNCHANGED <<senderVars, registerVars>>
  /\ UNCHANGED <<subscriptions, exitTime, selfIncoming, pending, sent, nRecv,
                 lastFrame, prevHead, cur, lastSub, nSubs, stopPc>>

\* The loop over the subscribers is exhausted: message_in returns.
DispatchEnd ==
  /\ pc = "Dispatch"
  /\ idx > Len(subscriptions[cur.signal])
  /\ pc' = "Check"
  /\ idx' = 0
  /\ UNCHANGED <<senderVars, registerVars>>
  /\ UNCHANGED <<subscriptions, exitTime, selfIncoming, sock, ctx, pending, sent,
                 nRecv, lastFrame, prevHead, cur, calls, lastExc, lastSub,
                 nSubs, stopPc>>

\* ------------------------------------------- Transceiver.message_out

\* A list or a tuple of fields, or a value of another type.
PySeq(type, parts) == [type |-> type, chars |-> parts]

OutFrame == <<DISPATCH, Origin, <<"A">>, GoodData, NoReply>>

MessageInputs ==
  {PySeq("list", OutFrame), PySeq("tuple", OutFrame), PySeq("list", <<SYNC>>),
   PyStr(<<"a">>), PyOther("int"), None}

\* Variant that takes a string for a sequence of fields too.
IsListOrTuple_or_str(message) == message.type \in {"list", "tuple", "str"}

\* isinstance(message, list) or isinstance(message, tuple)
IsListOrTuple(message) == message.type = "list" \/ message.type = "tuple"

\* The connection of sender t's call in progress, with field f set to v.
WithConn(t, f, v) == [conns EXCEPT ![sconn[t]] = [@ EXCEPT ![f] = v]]

\* message_out(message) is called on thread t. Not a list or tuple:
\* MessageOutError. Otherwise zmq.Context() and context.socket(zmq.PUSH)
\* make this call's own socket; socket() failing raises before the try.
SendCall(t) ==
  /\ spc[t] = "idle"
  /\ nSends < MaxSends
  /\ nSends' = nSends + 1
  /\ \E message \in MessageInputs, socketFails \in BOOLEAN :
       /\ smsg' = [smsg EXCEPT ![t] = message]
       /\ spub' = [spub EXCEPT ![t] = NoPub]
       /\ IF ~IsListOrTuple(message)
          THEN /\ ~socketFails
               /\ sres' = [sres EXCEPT ![t] = "MessageOutError"]
               /\ sconn' = [sconn EXCEPT ![t] = 0]
               /\ UNCHANGED <<spc, conns>>
          ELSE IF socketFails
          THEN /\ sres' = [sres EXCEPT ![t] = "ZMQError"]
               /\ sconn' = [sconn EXCEPT ![t] = 0]
               /\ UNCHANGED <<spc, conns>>
          ELSE /\ conns' = Append(conns, [owner |-> t, message |-> message,
                                          state |-> "created", wire |-> <<>>])
               /\ sconn' = [sconn EXCEPT ![t] = Len(conns) + 1]
               /\ spc' = [spc EXCEPT ![t] = "connect"]
               /\ sres' = [sres EXCEPT ![t] = "none"]
  /\ UNCHANGED <<receiverVars, registerVars>>

\* outgoing.connect(self.outgoing_uri), which may raise.
SendConnect(t) ==
  /\ spc[t] = "connect"
  /\ \E fails \in BOOLEAN :
       IF fails
       THEN /\ spc' = [spc EXCEPT ![t] = "finally"]
            /\ sres' = [sres EXCEPT ![t] = "ZMQError"]
            /\ UNCHANGED conns
       ELSE /\ spc' = [spc EXCEPT ![t] = "sync"]
            /\ conns' = WithConn(t, "state", "connected")
            /\ UNCHANGED sres
  /\ UNCHANGED <<smsg, sconn, nSends, spub>>
  /\ UNCHANGED <<receiverVars, registerVars>>

\* outgoing.send_multipart(frames.sync_message()), which may raise.
SendSync(t) ==
  /\ spc[t] = "sync"
  /\ \E fails \in BOOLEAN :
       IF fails
       THEN /\ spc' = [spc EXCEPT ![t] = "finally"]
            /\ sres' = [sres EXCEPT ![t] = "ZMQError"]
            /\ UNCHANGED conns
       ELSE /\ spc' = [spc EXCEPT ![t] = "message"]
            /\ conns' = WithConn(t, "wire", Append(conns[sconn[t]].wire, sync_message))
            /\ UNCHANGED sres
  /\ UNCHANGED <<smsg, sconn, nSends, spub>>
  /\ UNCHANGED <<receiverVars, registerVars>>

\* Variant of SendMessage without the finally block: a failed send leaves
\* message_out at once.
SendMessage_no_finally(t) ==
  /\ spc[t] = "message"
  /\ \E fails \in BOOLEAN :
       IF fails
       THEN /\ sres' = [sres EXCEPT ![t] = "ZMQError"]
            /\ spc' = [spc EXCEPT ![t] = "idle"]
            /\ UNCHANGED conns
       ELSE /\ conns' = WithConn(t, "wire", Append(conns[sconn[t]].wire, smsg[t].chars))
            /\ spc' = [spc EXCEPT ![t] = "finally"]
            /\ UNCHANGED sres
  /\ UNCHANGED <<smsg, sconn, nSends, spub>>
  /\ UNCHANGED <<receiverVars, registerVars>>

\* outgoing.send_multipart(message), which may raise.
SendMessage(t) ==
  /\ spc[t] = "message"
  /\ \E fails \in BOOLEAN :
       IF fails
       THEN /\ sres' = [sres EXCEPT ![t] = "ZMQError"]
            /\ UNCHANGED conns
       ELSE /\ conns' = WithConn(t, "wire", Append(conns[sconn[t]].wire, smsg[t].chars))
            /\ UNCHANGED sres
  /\ spc' = [spc EXCEPT ![t] = "finally"]
  /\ UNCHANGED <<smsg, sconn, nSends, spub>>
  /\ UNCHANGED <<receiverVars, registerVars>>

\* finally: outgoing.close(); context.term(). Then the call returns, or the
\* exception of the try block goes on to the caller.
SendFinally(t) ==
  /\ spc[t] = "finally"
  /\ conns' = WithConn(t, "state", "closed")
  /\ spc' = [spc EXCEPT ![t] = "idle"]
  /\ sres' = [sres EXCEPT ![t] = IF sres[t] = "none" THEN "returned" ELSE sres[t]]
  /\ UNCHANGED <<smsg, sconn, nSends, spub>>
  /\ UNCHANGED <<receiverVars, registerVars>>

\* ------------------------------------------------------ Register.publish

\* The frame Register.publish(signal, data) makes: frames.dispatch_message
\* of the endpoint id, the signal as given and the data, no reply_to.
publish(signal, data) == dispatch_message(selfEndpointUuid, signal, data, None)

\* publish(signal, data) is called on thread t: the frame is made and
\* handed to message_out, which starts as in SendCall.
Publish(t) ==
  /\ spc[t] = "idle"
  /\ nSends < MaxSends
  /\ nSends' = nSends + 1
  /\ \E signal \in PubSignalArgs, data \in PubData, socketFails \in BOOLEAN :
       \E message \in {publish(signal, data)} :
         /\ spub' = [spub EXCEPT ![t] = [signal |-> signal, data |-> data]]
         /\ smsg' = [smsg EXCEPT ![t] = message]
         /\ IF ~IsListOrTuple(message)
            THEN /\ ~socketFails
                 /\ sres' = [sres EXCEPT ![t] = "MessageOutError"]
                 /\ sconn' = [sconn EXCEPT ![t] = 0]
                 /\ UNCHANGED <<spc, conns>>
            ELSE IF socketFails
            THEN /\ sres' = [sres EXCEPT ![t] = "ZMQError"]
                 /\ sconn' = [sconn EXCEPT ![t] = 0]
                 /\ UNCHANGED <<spc, conns>>
            ELSE /\ conns' = Append(conns, [owner |-> t, message |-> message,
                                            state |-> "created", wire |-> <<>>])
                 /\ sconn' = [sconn EXCEPT ![t] = Len(conns) + 1]
                 /\ spc' = [spc EXCEPT ![t] = "connect"]
                 /\ sres' = [sres EXCEPT ![t] = "none"]
  /\ UNCHANGED <<receiverVars, registerVars>>

\* The frames pushed to the hub so far.
WireFrames ==
  UNION {{conns[i].wire[j] : j \in 1..Len(conns[i].wire)} : i \in 1..Len(conns)}

\* ------------------------------------------------------- specifications

\* The life cycle: the caller subscribes, starts and stops at any moment,
\* the hub sends frames, the loop runs.
Subscribe == SubscribeFrom(CoreSignals)

Recv == RecvFrom(CoreFrames)

Next ==
  \/ Subscribe
  \/ Start
  \/ Stop
  \/ HubSend
  \/ MainEnter
  \/ LoopCheck
  \/ PollReturn
  \/ PollInterrupt
  \/ Recv
  \/ Invoke
  \/ DispatchEnd

Spec == Init /\ [][Next]_vars

\* Frame handling: the caller subscribes before start() and does not stop;
\* the hub sends frames of every kind.
SubscribeFirst == pc = "Idle" /\ SubscribeFrom(FrameSignals)

RecvAny == RecvFrom(AllFrames)

FrameNext ==
  \/ SubscribeFirst
  \/ Start
  \/ HubSend
  \/ MainEnter
  \/ LoopCheck
  \/ PollReturn
  \/ RecvAny
  \/ Invoke
  \/ DispatchEnd

FrameSpec == Init /\ [][FrameNext]_vars

\* Signal normalisation: the caller makes one subscribe call, of a signal of
\* any spelling, before start(); the hub sends DISPATCH frames of every
\* spelling.
SubscribeSpelled == pc = "Idle" /\ nSubs = 0 /\ SubscribeFrom(SignalInputs)

RecvSpelled == RecvFrom(SignalFrames)

NormNext ==
  \/ SubscribeSpelled
  \/ Start
  \/ HubSend
  \/ MainEnter
  \/ LoopCheck
  \/ PollReturn
  \/ RecvSpelled
  \/ Invoke
  \/ DispatchEnd

NormSpec == Init /\ [][NormNext]_vars

\* Sending: the sender threads call message_out concurrently.
Call == \E t \in Senders : SendCall(t)

Connect == \E t \in Senders : SendConnect(t)

Sync == \E t \in Senders : SendSync(t)

Message == \E t \in Senders : SendMessage(t)

Finally == \E t \in Senders : SendFinally(t)

SendNext ==
  \/ Call
  \/ Connect
  \/ Sync
  \/ Message
  \/ Finally

SendSpec == Init /\ [][SendNext]_vars

\* The subscription table: the caller subscribes before start() and calls
\* unsubscribe at any moment; the hub sends frames.
SubscribeTable == pc = "Idle" /\ SubscribeFrom(CoreSignals)

TableNext ==
  \/ SubscribeTable
  \/ Unsubscribe
  \/ Start
  \/ HubSend
  \/ MainEnter
  \/ LoopCheck
  \/ PollReturn
  \/ Recv
  \/ Invoke
  \/ DispatchEnd

TableSpec == Init /\ [][TableNext]_vars

\* Keepalive frames: the caller subscribes, before start(), to signals
\* named like the commands; the hub sends sync and hub_present frames and
\* DISPATCH frames of those signals.
SubscribeKeepalive == pc = "Idle" /\ SubscribeFrom(KeepaliveSignals)

RecvKeepalive == RecvFrom(KeepaliveFrames)

KeepaliveNext ==
  \/ SubscribeKeepalive
  \/ Start
  \/ HubSend
  \/ MainEnter
  \/ LoopCheck
  \/ PollReturn
  \/ RecvKeepalive
  \/ Invoke
  \/ DispatchEnd

KeepaliveSpec == Init /\ [][KeepaliveNext]_vars

\* Publishing: the caller makes one subscribe call before start() and then
\* publishes from one thread; the hub relays the frames pushed to it back
\* to the inbound socket.
SubscribeTea == pc = "Idle" /\ nSubs = 0 /\ SubscribeWith(PubSubscribeArgs)

PublishCall == Publish("t1")

PubConnect == SendConnect("t1")

PubSync == SendSync("t1")

PubMessage == SendMessage("t1")

PubFinally == SendFinally("t1")

HubRelay == WireFrames # {} /\ HubSend

RecvRelayed == RecvFrom(WireFrames)

PubNext ==
  \/ SubscribeTea
  \/ Start
  \/ MainEnter
  \/ LoopCheck
  \/ PollReturn
  \/ PublishCall
  \/ PubConnect
  \/ PubSync
  \/ PubMessage
  \/ PubFinally
  \/ HubRelay
  \/ RecvRelayed
  \/ Invoke
  \/ DispatchEnd

PubSpec == PubInit /\ [][PubNext]_vars

\* Fairness: the receive-loop thread, once started, keeps being scheduled,
\* so each of its steps that stays possible is taken. The caller, the hub
\* and signals interrupting poll() are under no obligation.
FairSpec ==
  /\ Spec
  /\ WF_vars(MainEnter)
  /\ WF_vars(LoopCheck)
  /\ WF_vars(PollReturn)
  /\ WF_vars(Recv)
  /\ WF_vars(Invoke)
  /\ WF_vars(DispatchEnd)

\* ------------------------------------------------------------ properties

\* The frame last received has been handled to its end.
FrameDone == nRecv > 0 /\ pc # "Dispatch"

\* The loop is alive: between two frames, in poll() or in recv_multipart().
LoopRunning == pc \in {"Check", "Poll", "Recv"}

\* The callbacks called for the last frame, in call order.
Called == [i \in 1..Len(calls) |-> calls[i].callback]

\* Characters c and d are one letter, in either case.
SameLetter(c, d) == c = d \/ \E i \in 1..26 : {c, d} = {Lowers[i], Uppers[i]}

\* The ways to read string s as padding, a core, padding: the numbers of
\* leading and trailing blanks taken as padding.
Paddings(s) ==
  LET leading  == {l \in 0..Len(s) : \A i \in 1..l : s[i] = " "}
      trailing == {r \in 0..Len(s) : \A i \in (Len(s) - r + 1)..Len(s) : s[i] = " "}
  IN  {p \in leading \X trailing : p[1] + p[2] <= Len(s)}

Core(s, p) == SubSeq(s, p[1] + 1, Len(s) - p[2])

\* Strings s1 and s2 differ at most in letter case and in surrounding
\* whitespace: each is padding, a core, padding, the cores alike letter by
\* letter.
DifferOnlyInCaseOrPadding(s1, s2) ==
  \E p1 \in Paddings(s1), p2 \in Paddings(s2) :
    LET c1 == Core(s1, p1)
        c2 == Core(s2, p2)
    IN  /\ Len(c1) = Len(c2)
        /\ \A i \in 1..Len(c1) : SameLetter(c1[i], c2[i])

\* C1: a callback subscribed twice to one signal is called exactly once for
\* one DISPATCH frame of that signal: no callback is called twice for a frame.
C1_OneCallPerDispatch ==
  \A i, j \in 1..Len(calls) : calls[i].callback = calls[j].callback => i = j

\* C2: stop() called while the loop is blocked in poll() leads to the loop
\* being Terminated, even if the hub sends no further frame.
C2_StopInPollTerminates == (stopPc = "Poll") ~> (pc = "Terminated")

\* C3: once the loop is Terminated, no frame is received or handed to the
\* handler and no subscriber is called, whatever the hub sends.
C3_NothingAfterTerminated ==
  [][pc = "Terminated" =>
       /\ pc' = "Terminated"
       /\ nRecv' = nRecv
       /\ lastFrame' = lastFrame
       /\ calls' = calls]_vars

C3_TerminatedWithFramesWaiting ==
  /\ pc = "Terminated"
  /\ nRecv > 0
  /\ pending > 0
  /\ DOMAIN subscriptions # {}

\* C4: after subscribe(s1, cb) has returned, a DISPATCH frame whose signal
\* s2 differs from s1 at most in case and surrounding whitespace calls cb.
C4_SpellingsReachSubscriber ==
  ( /\ FrameDone
    /\ lastSub.exc = "none"
    /\ lastSub.signal.type = "str"
    /\ DifferOnlyInCaseOrPadding(lastSub.signal.chars, lastFrame[3]) )
  => \E i \in 1..Len(calls) : calls[i].callback = lastSub.callback

C4_OtherSpellingDelivered ==
  /\ FrameDone
  /\ lastSub.exc = "none"
  /\ lastSub.signal.type = "str"
  /\ lastSub.signal.chars = <<" ", "a">>
  /\ lastFrame[3] = <<"A", " ">>
  /\ \E i \in 1..Len(calls) : calls[i].callback = lastSub.callback

\* Field names the command: it is the name up to letter case and padding.
IsCommand(field, name) == DifferOnlyInCaseOrPadding(field, name)

\* A DISPATCH frame of four arguments, JSON data and a signal that is not blank.
ValidDispatch(f) ==
  /\ Len(f) = 5
  /\ f[4] = GoodData
  /\ \E i \in 1..Len(f[3]) : f[3][i] # " "
  /\ IsCommand(f[1], DISPATCH)

\* The subscribers of the signal of frame f, in subscription order.
SubscribersOf(f) ==
  IF \E k \in DOMAIN subscriptions : DifferOnlyInCaseOrPadding(k, f[3])
  THEN subscriptions[CHOOSE k \in DOMAIN subscriptions :
                       DifferOnlyInCaseOrPadding(k, f[3])]
  ELSE <<>>

\* The last frame was delivered: its subscribers, and they alone, were called.
Delivered == Called = SubscribersOf(lastFrame)

\* A DISPATCH command with other than four argument fields.
BadArity(cmd, nargs) == nargs >= 0 /\ nargs # 4 /\ IsCommand(cmd, DISPATCH)

\* A command that is none of dispatch, hub_present, sync.
Unknown(cmd) ==
  ~IsCommand(cmd, DISPATCH) /\ ~IsCommand(cmd, HUB_PRESENT) /\ ~IsCommand(cmd, SYNC)

\* C5: a DISPATCH frame of other than four argument fields is dropped: no
\* subscriber is called for it, the loop goes on, the subscription table is
\* as before, and a valid frame after it is delivered.
C5_BadArityDropped ==
  /\ []( (nRecv > 0 /\ BadArity(lastFrame[1], Len(lastFrame) - 1))
           => (calls = <<>> /\ LoopRunning) )
  /\ []( (FrameDone /\ BadArity(prevHead.cmd, prevHead.nargs) /\ ValidDispatch(lastFrame))
           => Delivered )
  /\ [][ (nRecv' # nRecv /\ BadArity(lastFrame'[1], Len(lastFrame') - 1))
           => subscriptions' = subscriptions ]_vars

C5_ValidAfterBadArity ==
  /\ FrameDone
  /\ BadArity(prevHead.cmd, prevHead.nargs)
  /\ prevHead.nargs = 5
  /\ ValidDispatch(lastFrame)
  /\ calls # <<>>

\* C6: a frame of unknown command calls no subscriber and leaves the loop
\* running, and a valid DISPATCH frame after it calls exactly its subscribers.
C6_UnknownCommandDropped ==
  /\ (nRecv > 0 /\ Unknown(lastFrame[1])) => (calls = <<>> /\ LoopRunning)
  /\ ( /\ FrameDone
       /\ prevHead.nargs >= 0
       /\ Unknown(prevHead.cmd)
       /\ ValidDispatch(lastFrame) ) => Delivered

C6_ValidAfterUnknown ==
  /\ FrameDone
  /\ prevHead.cmd = Bogus
  /\ prevHead.nargs = 4
  /\ ValidDispatch(lastFrame)
  /\ Len(calls) = 2

\* C7: when a subscriber raises, the other subscribers of the frame are still
\* called, the exception does not leave the handler, and the subscribers of
\* the frames after it are still called.
C7_CallbackFailureIsolated ==
  ( /\ FrameDone
    /\ ValidDispatch(lastFrame)
    /\ (prevHead.raised \/ \E i \in 1..Len(calls) : calls[i].raised) )
  => (Delivered /\ lastExc = "none" /\ LoopRunning)

C7_SiblingAndLaterFrameCalled ==
  /\ FrameDone
  /\ prevHead.raised
  /\ Len(calls) = 2
  /\ calls[1].raised
  /\ ~calls[2].raised
  /\ calls[1].callback # calls[2].callback

\* C8: no exception of the handler leaves message_in: after a frame whose
\* handling raised (data that is not JSON, a blank signal, ...) the loop is
\* running, never dead, and a valid frame after it is delivered.
C8_NoExceptionLeavesLoop ==
  /\ pc # "Crashed"
  /\ (nRecv > 0 /\ lastExc # "none") => LoopRunning
  /\ ( /\ nRecv > 0
       /\ Len(lastFrame) = 5
       /\ IsCommand(lastFrame[1], DISPATCH)
       /\ (lastFrame[4] = BadData \/ \A i \in 1..Len(lastFrame[3]) : lastFrame[3][i] = " ") )
     => (lastExc # "none" /\ LoopRunning)
  /\ (FrameDone /\ prevHead.exc # "none" /\ ValidDispatch(lastFrame)) => Delivered

C8_ValidAfterJsonFailure ==
  /\ FrameDone
  /\ prevHead.exc = "ValueError"
  /\ prevHead.nargs = 4
  /\ ValidDispatch(lastFrame)
  /\ calls # <<>>

\* C9: message_out of a value that is neither a list nor a tuple raises
\* MessageOutError without network I/O: the call opens no connection, and no
\* connection exists that was opened for such a value.
C9_NonSequenceRejected ==
  /\ \A t \in Senders :
       smsg[t].type \notin {"list", "tuple", "uncalled"}
         => (sres[t] = "MessageOutError" /\ sconn[t] = 0 /\ spc[t] = "idle")
  /\ \A i \in 1..Len(conns) : conns[i].message.type \in {"list", "tuple"}

C9_ScalarRejected ==
  \E t \in Senders :
    /\ smsg[t] = PyOther("int")
    /\ sres[t] = "MessageOutError"
    /\ nSends = MaxSends

\* C10: each message_out call that sends has its own connection, on which
\* the SYNC frame goes first and the message second; when the call is over,
\* returned or raised, its connection is closed.
C10_OwnConnectionSyncFirstClosed ==
  /\ \A i \in 1..Len(conns) :
       LET c == conns[i]
       IN  /\ c.wire \in {<<>>, <<<<SYNC>>>>, <<<<SYNC>>, c.message.chars>>}
           /\ c.state # "closed" => (spc[c.owner] # "idle" /\ sconn[c.owner] = i)
           /\ (sconn[c.owner] = i /\ sres[c.owner] = "returned")
                => (c.state = "closed" /\ c.wire = <<<<SYNC>>, c.message.chars>>)
  /\ \A t, u \in Senders : (t # u /\ sconn[t] # 0) => sconn[t] # sconn[u]
  /\ \A t \in Senders : (spc[t] = "idle" /\ sres[t] = "returned") => sconn[t] # 0

C10_InterleavedSendsAndFailure ==
  /\ Len(conns) = 2
  /\ conns[1].owner # conns[2].owner
  /\ conns[1].state = "closed"
  /\ conns[2].state = "closed"
  /\ sres[conns[1].owner] = "ZMQError"
  /\ conns[1].wire = <<<<SYNC>>>>
  /\ sres[conns[2].owner] = "returned"
  /\ conns[2].wire = <<<<SYNC>>, OutFrame>>

Published(t, signal, data) == spub[t] = [signal |-> signal, data |-> data]

C14_PublishedFrameNormalized ==
  \A t \in Senders :
    (spub[t] # NoPub /\ validate_signal(spub[t].signal).ok)
    => LET f == smsg[t].chars
       IN  /\ Len(f) = 5
           /\ f[1] = DISPATCH
           /\ f[2] = selfEndpointUuid
           /\ f[3] = upper(strip(spub[t].signal.chars))
           /\ json_loads(f[4]) = [ok |-> TRUE, val |-> spub[t].data]

\* The signal is not a string, or is empty after strip().
InvalidSignal(signal) ==
  signal.type # "str" \/ \A i \in 1..Len(signal.chars) : IsSpace(signal.chars[i])

\* C15: a subscribe or publish call whose signal is not a string, or is
\* blank, raises and has no effect: after such a subscribe the table is as
\* before, here empty; such a publish hands no frame to message_out and
\* opens no connection.
C15_InvalidSignalRejected ==
  /\ (nSubs > 0 /\ InvalidSignal(lastSub.signal))
       => (lastSub.exc = "ValueError" /\ subscriptions = <<>>)
  /\ \A t \in Senders :
       (spub[t] # NoPub /\ InvalidSignal(spub[t].signal))
       => /\ sres[t] = "ValueError"
          /\ spc[t] = "idle"
          /\ \A i \in 1..Len(conns) : conns[i].message.chars[3] # spub[t].signal.chars

\* stop() was called while main() had its socket open.
StoppedWhileOpen == stopPc \in {"Check", "Poll", "Recv", "Dispatch"}

\* C13: when stop() has been called after the loop opened the inbound
\* socket, the socket is closed: stop() itself closes it, whether or not the
\* loop has ended.
C13_StopClosesInbound == StoppedWhileOpen => sock = "closed"

\* C19: a ZMQError raised by poll() ends the loop: the step that leaves
\* poll() other than by returning goes to Terminated, receives and hands on
\* no frame, calls no subscriber, closes the socket, terminates the context
\* and raises nothing; in every Terminated state, reached by the stop flag
\* or by the interrupt, the socket is closed and the context terminated.
C19_PollInterruptShutsDown ==
  /\ [](pc = "Terminated" => (sock = "closed" /\ ctx = "terminated"))
  /\ [][ (pc = "Poll" /\ pc' \notin {"Poll", "Recv", "Check"})
           => /\ pc' = "Terminated"
              /\ nRecv' = nRecv
              /\ pending' = pending
              /\ lastFrame' = lastFrame
              /\ calls' = calls
              /\ lastExc' = lastExc
              /\ sock' = "closed"
              /\ ctx' = "terminated" ]_vars

C19_InterruptedWithFrameWaiting ==
  /\ pc = "Terminated"
  /\ stopPc = "none"
  /\ ~exitTime
  /\ pending > 0
  /\ nRecv > 0
  /\ sock = "closed"
  /\ ctx = "terminated"

\* C20: a stop() made after start() is not lost: the flag it raised stays
\* raised, so the loop sees it at its next test, also when stop() ran before
\* the new thread entered main().
C20_StopRequestKept == stopPc \notin {"none", "Idle"} => exitTime

\* The last frame is a DISPATCH whose signal has subscribers.
Dispatching == nRecv > 0 /\ cur.kind = "invoke" /\ cur.signal \in DOMAIN subscriptions

\* C16: the subscribers of a DISPATCH frame's signal are called on the loop
\* thread one after another in the order of their subscribe calls: the calls
\* made so far are the head of the signal's list, the callback subscribed
\* last is called last, each step makes one call, and the next frame is
\* received only when every subscriber of the frame before has been called.
C16_InOrderBeforeNextFrame ==
  /\ [](Dispatching =>
          /\ Len(calls) <= Len(subscriptions[cur.signal])
          /\ \A i \in 1..Len(calls) : calls[i].callback = subscriptions[cur.signal][i]
          /\ (pc # "Dispatch") => (Len(calls) = Len(subscriptions[cur.signal])))
  /\ []( ( /\ Dispatching
           /\ pc # "Dispatch"
           /\ lastSub.exc = "none"
           /\ DifferOnlyInCaseOrPadding(lastSub.signal.chars, lastFrame[3]) )
         => calls[Len(calls)].callback = lastSub.callback )
  /\ [][ (calls' # calls /\ nRecv' = nRecv)
           => (pc = "Dispatch" /\ Len(calls') = Len(calls) + 1
               /\ SubSeq(calls', 1, Len(calls)) = calls) ]_vars
  /\ [][ (nRecv' # nRecv) => (pc = "Recv" /\ calls' = <<>>) ]_vars

C16_TwoSubscribersThenNextFrame ==
  /\ FrameDone
  /\ nRecv = 2
  /\ prevHead.cmd = DISPATCH
  /\ prevHead.nargs = 4
  /\ nSubs = 2
  /\ Len(calls) = 2
  /\ calls[1].callback # calls[2].callback
  /\ calls[2].callback = lastSub.callback

\* C17: a frame whose command is sync or hub_present, in any letter case
\* and padding and with any argument fields, calls no subscriber and leaves
\* the loop running, also when callbacks are subscribed to the signals
\* "SYNC" and "HUB_PRESENT".
C17_KeepaliveNeverDispatched ==
  (nRecv > 0 /\ (IsCommand(lastFrame[1], SYNC) \/ IsCommand(lastFrame[1], HUB_PRESENT)))
  => (calls = <<>> /\ pc # "Dispatch" /\ LoopRunning)

C17_SyncWithSubscriberOnSync ==
  /\ nRecv = 2
  /\ prevHead.cmd = DISPATCH
  /\ prevHead.nargs = 4
  /\ lastFrame = SyncWithArgs
  /\ SYNC \in DOMAIN subscriptions
  /\ subscriptions[SYNC] # <<>>
  /\ calls = <<>>
  /\ pc = "Check"

\* Table t holds every key of table s, and under each the list of s as the
\* head of its own.
Extends(t, s) ==
  \A k \in DOMAIN s :
    /\ k \in DOMAIN t
    /\ Len(t[k]) >= Len(s[k])
    /\ SubSeq(t[k], 1, Len(s[k])) = s[k]

====
